---- MODULE Spec2Model ----
(***************************************************************************)
(* LocalDrop: the multi-file conversion queue of the Converter component   *)
(* (React state `state`, the objectUrls ref, the queue effect, the         *)
(* conversion completions and the user handlers), with the validation and  *)
(* conversion helpers of lib/converters.ts it calls.                       *)
(*                                                                         *)
(* Every handler is one action: its setState updater is applied to the     *)
(* current state in the same step.  The queue effect is an action of its   *)
(* own (QueueEffect), run by React after a commit; a conversion started by *)
(* processFile is a record in `inflight` until its completion step.        *)
(***************************************************************************)
EXTENDS Integers, Sequences, FiniteSets, TLC

(* ------------------------------ bounds --------------------------------- *)

\* Items submitted over a session.
MaxFiles == 3
\* Files in one selection (one handleFileSelect call).
MaxBatch == 2
\* Largest concurrency cap tried: MAX_CONCURRENT_CONVERSIONS is imported from
\* lib/constants, and every value in 1..MaxCap is checked.
MaxCap == 2

(* ----------------------------- constants ------------------------------- *)

FILE_CONSTRAINTS ==
    [ maxSize |-> 50 * 1024 * 1024,
      allowedExtensions |-> << <<".", "h", "e", "i", "c">>,
                               <<".", "H", "E", "I", "C">> >> ]

CONVERSION_CONFIG == [ toType |-> "image/jpeg", quality |-> "0.8" ]

ERROR_MESSAGES ==
    [ FILE_TOO_LARGE      |-> "File too large for browser processing.",
      INVALID_FORMAT      |-> "Please select a HEIC file.",
      CONVERSION_FAILED   |-> "This file appears to be damaged or not a standard HEIC.",
      BROWSER_UNSUPPORTED |-> "Your browser is too old for privacy-mode." ]

OutputFormat == {"image/jpeg", "image/png"}

\* globalError?: string -- the absent value.
Undefined == "undefined"
\* downloadUrl: '' -- no blob URL.
NoUrl == <<>>
\* filename: '' -- the empty name.
NoName == <<>>

(* ------------------------- strings and bytes --------------------------- *)

Min(a, b) == IF a < b THEN a ELSE b

\* String.prototype.toLowerCase on the ASCII letters.
Uppers == <<"A", "B", "C", "D", "E", "F", "G", "H", "I", "J", "K", "L", "M",
            "N", "O", "P", "Q", "R", "S", "T", "U", "V", "W", "X", "Y", "Z">>
Lowers == <<"a", "b", "c", "d", "e", "f", "g", "h", "i", "j", "k", "l", "m",
            "n", "o", "p", "q", "r", "s", "t", "u", "v", "w", "x", "y", "z">>
UpperToLower ==
    [c \in {Uppers[i] : i \in DOMAIN Uppers} |->
        Lowers[CHOOSE i \in DOMAIN Uppers : Uppers[i] = c]]
LowerChar(c) == IF c \in DOMAIN UpperToLower THEN UpperToLower[c] ELSE c
toLowerCase(s) == [i \in DOMAIN s |-> LowerChar(s[i])]

endsWith(s, suffix) ==
    /\ Len(s) >= Len(suffix)
    /\ SubSeq(s, Len(s) - Len(suffix) + 1, Len(s)) = suffix

\* Char codes of the tags the sniffer compares with.
Code == ("f" :> 102) @@ ("t" :> 116) @@ ("y" :> 121) @@ ("p" :> 112) @@
        ("h" :> 104) @@ ("e" :> 101) @@ ("i" :> 105) @@ ("c" :> 99) @@
        ("x" :> 120) @@ ("v" :> 118) @@ ("m" :> 109) @@ ("s" :> 115) @@
        ("1" :> 49) @@ ("4" :> 52)
Tag(a, b, c, d) == <<Code[a], Code[b], Code[c], Code[d]>>

(* ------------------------- lib/converters.ts --------------------------- *)

\* Mutant: the size is checked before the extension.
validateFileSizeFirst(file) ==
    LET fileName == toLowerCase(file.name)
        hasValidExtension ==
            \E k \in DOMAIN FILE_CONSTRAINTS.allowedExtensions :
                endsWith(fileName, toLowerCase(FILE_CONSTRAINTS.allowedExtensions[k]))
    IN  IF file.size > FILE_CONSTRAINTS.maxSize
          THEN [isValid |-> FALSE, errorMessage |-> ERROR_MESSAGES.FILE_TOO_LARGE]
        ELSE IF ~hasValidExtension
          THEN [isValid |-> FALSE, errorMessage |-> ERROR_MESSAGES.INVALID_FORMAT]
        ELSE [isValid |-> TRUE, errorMessage |-> ""]

\* Mutant: the name is compared as written, and a file of exactly maxSize
\* is rejected.
validateFileStrict(file) ==
    LET hasValidExtension ==
            \E k \in DOMAIN FILE_CONSTRAINTS.allowedExtensions :
                endsWith(file.name, FILE_CONSTRAINTS.allowedExtensions[k])
    IN  IF ~hasValidExtension
          THEN [isValid |-> FALSE, errorMessage |-> ERROR_MESSAGES.INVALID_FORMAT]
        ELSE IF file.size >= FILE_CONSTRAINTS.maxSize
          THEN [isValid |-> FALSE, errorMessage |-> ERROR_MESSAGES.FILE_TOO_LARGE]
        ELSE [isValid |-> TRUE, errorMessage |-> ""]

\* validateFile: extension first, size second.
validateFile(file) ==
    LET fileName == toLowerCase(file.name)
        hasValidExtension ==
            \E k \in DOMAIN FILE_CONSTRAINTS.allowedExtensions :
                endsWith(fileName, toLowerCase(FILE_CONSTRAINTS.allowedExtensions[k]))
    IN  IF ~hasValidExtension
          THEN [isValid |-> FALSE, errorMessage |-> ERROR_MESSAGES.INVALID_FORMAT]
        ELSE IF file.size > FILE_CONSTRAINTS.maxSize
          THEN [isValid |-> FALSE, errorMessage |-> ERROR_MESSAGES.FILE_TOO_LARGE]
        ELSE [isValid |-> TRUE, errorMessage |-> ""]

validBrands ==
    { Tag("h","e","i","c"), Tag("h","e","i","x"), Tag("h","e","v","c"),
      Tag("h","e","v","x"), Tag("h","e","i","m"), Tag("h","e","i","s"),
      Tag("h","e","v","m"), Tag("h","e","v","s"), Tag("m","i","f","1"),
      Tag("m","s","f","1") }

\* Mutant: the offsets are taken one byte early.
ByteAtOneEarly(bytes, i) == IF i >= 1 /\ i <= Len(bytes) THEN bytes[i] ELSE 0

\* bytes[i] of the Uint8Array read from file.slice(0, 12); a missing byte is
\* undefined, which String.fromCharCode turns into char code 0.
ByteAt(bytes, i) == IF i + 1 <= Len(bytes) THEN bytes[i + 1] ELSE 0

\* Mutant: only the type tag is compared, any brand passes.
isValidHeicFileFtypOnly(file) ==
    LET bytes == SubSeq(file.bytes, 1, Min(12, Len(file.bytes)))
    IN  <<ByteAt(bytes, 4), ByteAt(bytes, 5), ByteAt(bytes, 6), ByteAt(bytes, 7)>>
           = Tag("f","t","y","p")

\* `await file.slice(0, 12).arrayBuffer()` rejects for this file (a file
\* deleted or locked after it was picked).  Files carry the field readFails
\* only where the read is part of what is examined.
readFails(file) == "readFails" \in DOMAIN file /\ file.readFails

\* Mutant: the catch lets the file through (return true) and leaves the
\* decision to the decoder.
isValidHeicFileCatchPasses(file) ==
    LET bytes == SubSeq(file.bytes, 1, Min(12, Len(file.bytes)))
        ftypSignature ==
            <<ByteAt(bytes, 4), ByteAt(bytes, 5), ByteAt(bytes, 6), ByteAt(bytes, 7)>>
        brandSignature ==
            <<ByteAt(bytes, 8), ByteAt(bytes, 9), ByteAt(bytes, 10), ByteAt(bytes, 11)>>
    IN  IF readFails(file) THEN TRUE
        ELSE IF ftypSignature # Tag("f","t","y","p") THEN FALSE
        ELSE brandSignature \in validBrands

\* isValidHeicFile: bytes 4-7 are "ftyp" and bytes 8-11 a known brand; an
\* error while reading the prefix lands in the catch, which returns false.
isValidHeicFile(file) ==
    LET bytes == SubSeq(file.bytes, 1, Min(12, Len(file.bytes)))
        ftypSignature ==
            <<ByteAt(bytes, 4), ByteAt(bytes, 5), ByteAt(bytes, 6), ByteAt(bytes, 7)>>
        brandSignature ==
            <<ByteAt(bytes, 8), ByteAt(bytes, 9), ByteAt(bytes, 10), ByteAt(bytes, 11)>>
    IN  IF readFails(file) THEN FALSE
        ELSE IF ftypSignature # Tag("f","t","y","p") THEN FALSE
        ELSE brandSignature \in validBrands

\* JavaScript values heic2any can resolve with: undefined, null, an object
\* that is no Blob, a Blob (its size; frame tells the Blobs of one source
\* apart) and an array of values.
JsUndefined == [type |-> "undefined", size |-> 0, frame |-> 0, items |-> <<>>]
JsNull == [type |-> "null", size |-> 0, frame |-> 0, items |-> <<>>]
JsObject == [type |-> "Object", size |-> 0, frame |-> 0, items |-> <<>>]
Blob(size, frame) == [type |-> "Blob", size |-> size, frame |-> frame, items |-> <<>>]
JsArray(items) == [type |-> "Array", size |-> 0, frame |-> 0, items |-> items]

\* !value is false for these.
Truthy(value) == value.type \notin {"undefined", "null"}

\* What the world around one convertFile call does: how the import of
\* heic2any ends, whether file.arrayBuffer() resolves, and what the call of
\* heic2any does.
ArrayElements == { JsUndefined, Blob(0, 1), Blob(1024, 1), Blob(1024, 2) }
Heic2anyValues ==
    { JsUndefined, JsNull, JsObject }
      \cup (ArrayElements \ {JsUndefined})
      \cup { JsArray(items) : items \in UNION { [1..n -> ArrayElements] : n \in 0..2 } }
Heic2anyBehaviours ==
    { [kind |-> k, value |-> JsUndefined] : k \in {"throws", "rejects"} }
      \cup { [kind |-> "resolves", value |-> v] : v \in Heic2anyValues }
ConversionEnvironments ==
    [ module : {"heic2any", "heic2any/dist/heic2any.js", "fails", "notFunction"},
      arrayBuffer : {"resolves", "rejects"},
      heic2any : Heic2anyBehaviours ]

\* Mutant: the last element of an array is taken.
convertedBlobLast(result) ==
    IF result.type = "Array"
      THEN IF Len(result.items) >= 1 THEN result.items[Len(result.items)]
           ELSE JsUndefined
      ELSE result

\* Array.isArray(result) ? result[0] : result
convertedBlob(result) ==
    IF result.type = "Array"
      THEN IF Len(result.items) >= 1 THEN result.items[1] ELSE JsUndefined
      ELSE result

\* Mutant: the options always name the default type.
heic2anyOptionsDefaultType(outputFormat) ==
    [toType |-> CONVERSION_CONFIG.toType, quality |-> CONVERSION_CONFIG.quality]

\* The options convertFile(file, outputFormat) hands to heic2any next to
\* the blob: { toType: outputFormat, quality: CONVERSION_CONFIG.quality }.
heic2anyOptions(outputFormat) ==
    [toType |-> outputFormat, quality |-> CONVERSION_CONFIG.quality]

\* heic2any is called in this convertFile call: the sniffer passed, the
\* import gave a function and the file was read.
heic2anyCalled(file, env) ==
    /\ isValidHeicFile(file)
    /\ env.module \in {"heic2any", "heic2any/dist/heic2any.js"}
    /\ env.arrayBuffer = "resolves"

\* What `await convertFile(file, format)` resolves to in the environment
\* env.  Every throw inside the try lands in the catch, which returns the
\* failure result.
convertFile(file, env) ==
    LET failure == [success |-> FALSE, blob |-> JsUndefined,
                    error |-> ERROR_MESSAGES.CONVERSION_FAILED]
    IN  IF ~isValidHeicFile(file) THEN failure
        ELSE IF env.module \in {"fails", "notFunction"} THEN failure
        ELSE IF env.arrayBuffer = "rejects" THEN failure
        ELSE IF env.heic2any.kind # "resolves" THEN failure
        ELSE IF \/ ~Truthy(convertedBlob(env.heic2any.value))
                \/ convertedBlob(env.heic2any.value).type # "Blob"
          THEN failure
        ELSE [success |-> TRUE, blob |-> convertedBlob(env.heic2any.value),
              error |-> ""]

\* The branch processFile takes on the result: `!result.success || !result.blob`.
resultOutcome(result) ==
    IF ~result.success \/ ~Truthy(result.blob) THEN "failed" ELSE "blob"

\* The branches processFile can take for a file, over every environment:
\* the sniffer decides first; heic2any, once reached, may succeed or fail.
convertFileOutcomes(file) ==
    IF ~isValidHeicFile(file) THEN {"failed"}
    ELSE {"blob", "failed"}

(* ------------------------------ files ---------------------------------- *)

\* The first 12 bytes createDummyHeic writes: zeros, 'ftyp' at 4, the brand at 8.
dummyHeicBytes(brand) == <<0, 0, 0, 0>> \o Tag("f","t","y","p") \o brand

\* The files a user can drop: a well-formed .HEIC, a file with another
\* extension, and a .heic of 60 MiB (over maxSize).
SelectableFiles ==
    { [name |-> <<"a", ".", "H", "E", "I", "C">>, size |-> 2048,
       bytes |-> dummyHeicBytes(Tag("h","e","i","c"))],
      [name |-> <<"b", ".", "p", "n", "g">>, size |-> 2048,
       bytes |-> dummyHeicBytes(Tag("h","e","i","c"))],
      [name |-> <<"c", ".", "h", "e", "i", "c">>, size |-> 60 * 1024 * 1024,
       bytes |-> dummyHeicBytes(Tag("h","e","i","c"))] }

\* Selections of 1..MaxBatch files.
Selections ==
    UNION { [1..n -> SelectableFiles] : n \in 1..MaxBatch }

(* ------------------------------ state ---------------------------------- *)

VARIABLES
    phase,          \* "mounting" | "mounted" | "unmounted"
    MAX_CONCURRENT_CONVERSIONS,  \* the configured cap
    files,          \* state.files
    selectedFormat, \* state.selectedFormat
    globalError,    \* state.globalError
    objectUrls,     \* objectUrls.current
    inflight,       \* processFile calls awaiting convertFile
    nextId,         \* ids handed out so far + 1 (crypto.randomUUID is fresh)
    revokes,        \* blob URL created so far -> URL.revokeObjectURL calls on it
    dispatches,     \* id -> processFile calls made for it
    cleared,        \* clearAll has been called
    call,           \* a library function applied on its own: input and result
    zip,            \* isZipping and the handleDownloadAll call behind it
    single          \* the single-file Converter of components/Converter.tsx

vars == <<phase, MAX_CONCURRENT_CONVERSIONS, files, selectedFormat, globalError,
          objectUrls, inflight, nextId, revokes, dispatches, cleared, call, zip, single>>

\* The components' own variables.
converterVars ==
    <<phase, MAX_CONCURRENT_CONVERSIONS, files, selectedFormat, globalError,
      objectUrls, inflight, nextId, revokes, dispatches, cleared, zip, single>>

\* `call` while no library function is applied on its own.
NoCall == [fn |-> "none"]

\* `zip` before the first Download All: isZipping is false (stage "idle"),
\* nothing was asked for, read or delivered.
NoZip == [stage |-> "idle", successfulFiles |-> <<>>, released |-> {},
          archive |-> {}, delivered |-> FALSE]

Ids == 1..MaxFiles

IdsOf(fs) == {fs[i].id : i \in DOMAIN fs}

\* `file: null` of the single-file state.
NoFile == [name |-> <<>>, size |-> 0, bytes |-> <<>>]

\* useState of the single-file Converter.
initialState ==
    [file |-> NoFile, status |-> "idle", errorMessage |-> "",
     downloadUrl |-> NoUrl, filename |-> NoName]

\* The single-file Converter before its mount effects have run: its state,
\* its processFile calls awaiting convertFile, the files selected so far and
\* the blob URLs revoked so far.
NoSingle ==
    [phase |-> "mounting", state |-> initialState, calls |-> {}, selected |-> 0,
     revoked |-> {}]

\* The component before its mount effects have run.
InitConverter ==
    /\ phase = "mounting"
    /\ MAX_CONCURRENT_CONVERSIONS \in 1..MaxCap
    /\ files = <<>>
    /\ selectedFormat = CONVERSION_CONFIG.toType
    /\ globalError = Undefined
    /\ objectUrls = {}
    /\ inflight = {}
    /\ nextId = 1
    /\ revokes = <<>>
    /\ dispatches = [i \in Ids |-> 0]
    /\ cleared = FALSE
    /\ zip = NoZip
    /\ single = NoSingle

Init == InitConverter /\ call = NoCall

(* --------------------------- URL, the ledger --------------------------- *)

\* URL.createObjectURL: a URL no earlier call returned.
createObjectURL(id) == <<id, Cardinality({u \in DOMAIN revokes : u[1] = id})>>

\* URL.revokeObjectURL on each URL of `urls` (unknown URLs are ignored).
revokeObjectURLs(urls) ==
    [u \in DOMAIN revokes |-> IF u \in urls THEN revokes[u] + 1 ELSE revokes[u]]

\* The URLs held by the items of fs.
HeldUrls(fs) == {fs[i].downloadUrl : i \in DOMAIN fs} \ {NoUrl}

(* --------------------------- mount / unmount --------------------------- *)

\* The mount effects: checkBrowserCompatibility and its setState.
Mount ==
    /\ phase = "mounting"
    /\ phase' = "mounted"
    /\ \E isCompatible \in BOOLEAN :
          globalError' = IF ~isCompatible THEN ERROR_MESSAGES.BROWSER_UNSUPPORTED
                         ELSE globalError
    /\ UNCHANGED <<MAX_CONCURRENT_CONVERSIONS, files, selectedFormat, objectUrls,
                   inflight, nextId, revokes, dispatches, cleared, call, zip, single>>

\* Mutant: the cleanup clears the set without revoking its URLs.
UnmountClearOnly ==
    /\ phase = "mounted"
    /\ phase' = "unmounted"
    /\ objectUrls' = {}
    /\ UNCHANGED <<MAX_CONCURRENT_CONVERSIONS, files, selectedFormat, globalError,
                   inflight, nextId, revokes, dispatches, cleared, call, zip, single>>

\* The cleanup of the unmount effect: revoke every tracked URL, clear the set.
Unmount ==
    /\ phase = "mounted"
    /\ phase' = "unmounted"
    /\ revokes' = revokeObjectURLs(objectUrls)
    /\ objectUrls' = {}
    /\ UNCHANGED <<MAX_CONCURRENT_CONVERSIONS, files, selectedFormat, globalError,
                   inflight, nextId, dispatches, cleared, call, zip, single>>

(* ------------------------------ insert --------------------------------- *)

\* Mutant: the result of validateFile is not used; every item starts idle.
newFileItemUnvalidated(id, file) ==
    [ id |-> id, file |-> file, status |-> "idle", errorMessage |-> "",
      downloadUrl |-> NoUrl, filename |-> NoName ]

\* The FileItem handleFileSelect builds for one selected file.
newFileItem(id, file) ==
    LET validation == validateFile(file)
    IN  [ id |-> id,
          file |-> file,
          status |-> IF validation.isValid THEN "idle" ELSE "error",
          errorMessage |-> IF validation.isValid THEN "" ELSE validation.errorMessage,
          downloadUrl |-> NoUrl,
          filename |-> NoName ]

\* Mutant: the new items are put before the existing ones.
handleFileSelectPrepending(selectedFiles) ==
    /\ phase = "mounted"
    /\ nextId + Len(selectedFiles) - 1 <= MaxFiles
    /\ LET newFileItems ==
              [k \in DOMAIN selectedFiles |-> newFileItem(nextId + k - 1, selectedFiles[k])]
       IN  files' = newFileItems \o files
    /\ nextId' = nextId + Len(selectedFiles)
    /\ UNCHANGED <<phase, MAX_CONCURRENT_CONVERSIONS, selectedFormat, globalError,
                   objectUrls, inflight, revokes, dispatches, cleared, call, zip, single>>

\* handleFileSelect(selectedFiles): the DropZone is never disabled.
handleFileSelect(selectedFiles) ==
    /\ phase = "mounted"
    /\ nextId + Len(selectedFiles) - 1 <= MaxFiles
    /\ LET newFileItems ==
              [k \in DOMAIN selectedFiles |-> newFileItem(nextId + k - 1, selectedFiles[k])]
       IN  files' = files \o newFileItems
    /\ nextId' = nextId + Len(selectedFiles)
    /\ UNCHANGED <<phase, MAX_CONCURRENT_CONVERSIONS, selectedFormat, globalError,
                   objectUrls, inflight, revokes, dispatches, cleared, call, zip, single>>

(* --------------------------- the queue effect -------------------------- *)

processingCount(fs) == Cardinality({i \in DOMAIN fs : fs[i].status = "processing"})

\* Mutant: the slots are not reduced by the conversions already running.
availableSlotsIgnoringActive(fs, cap) == cap

\* Mutant: one slot is always held back.
availableSlotsMinusOne(fs, cap) == cap - processingCount(fs) - 1

availableSlots(fs, cap) == cap - processingCount(fs)

\* Mutant: the last idle items are taken instead of the first (slice(-n)).
nextFilesFromEnd(fs, cap) ==
    IF processingCount(fs) < cap
      THEN LET idle == SelectSeq(fs, LAMBDA f : f.status = "idle")
               n == Min(availableSlots(fs, cap), Len(idle))
           IN  SubSeq(idle, Len(idle) - n + 1, Len(idle))
      ELSE <<>>

\* Mutant: the filter keeps every unfinished item, the running ones included.
nextFilesUnfinished(fs, cap) ==
    IF processingCount(fs) < cap
      THEN LET open == SelectSeq(fs, LAMBDA f : f.status \in {"idle", "processing"})
           IN  SubSeq(open, 1, Min(availableSlots(fs, cap), Len(open)))
      ELSE <<>>

\* Mutant: the slice starts after the first idle item (slice(1, n)).
nextFilesSkipFirst(fs, cap) ==
    IF processingCount(fs) < cap
      THEN LET idle == SelectSeq(fs, LAMBDA f : f.status = "idle")
           IN  SubSeq(idle, 2, Min(availableSlots(fs, cap), Len(idle)))
      ELSE <<>>

\* Mutant: failed items are taken again next to the idle ones.
nextFilesRetrying(fs, cap) ==
    IF processingCount(fs) < cap
      THEN LET open == SelectSeq(fs, LAMBDA f : f.status \in {"idle", "error"})
           IN  SubSeq(open, 1, Min(availableSlots(fs, cap), Len(open)))
      ELSE <<>>

\* state.files.filter(f => f.status === 'idle').slice(0, availableSlots)
nextFiles(fs, cap) ==
    IF processingCount(fs) < cap
      THEN LET idle == SelectSeq(fs, LAMBDA f : f.status = "idle")
           IN  SubSeq(idle, 1, Min(availableSlots(fs, cap), Len(idle)))
      ELSE <<>>

\* Mutant: the chosen items are dispatched without being marked.
markProcessingSkipped(fs, chosen) == fs

\* Mutant: every idle item is marked, the items beyond the free slots too.
markProcessingAllIdle(fs, chosen) ==
    [i \in DOMAIN fs |->
        IF fs[i].status = "idle" THEN [fs[i] EXCEPT !.status = "processing"]
        ELSE fs[i]]

\* The updater of the effect: mark the chosen items processing.
markProcessing(fs, chosen) ==
    [i \in DOMAIN fs |->
        IF \E k \in DOMAIN chosen : chosen[k].id = fs[i].id
          THEN [fs[i] EXCEPT !.status = "processing"]
          ELSE fs[i]]

\* state.files after the effect has run on fs.
effectFiles(fs, cap) ==
    LET chosen == nextFiles(fs, cap)
    IN  IF Len(chosen) > 0 THEN markProcessing(fs, chosen) ELSE fs

\* The queue processing effect: promote, then call processFile on each.  A
\* call is kept in `inflight` with the item, the format it was given and the
\* options convertFile makes of that format for heic2any; n numbers the
\* calls made for one item.
QueueEffect ==
    /\ phase = "mounted"
    /\ LET chosen == nextFiles(files, MAX_CONCURRENT_CONVERSIONS)
       IN  /\ files' = effectFiles(files, MAX_CONCURRENT_CONVERSIONS)
           /\ inflight' = inflight \cup
                 { [fileItem |-> chosen[k], format |-> selectedFormat,
                    options |-> heic2anyOptions(selectedFormat),
                    n |-> dispatches[chosen[k].id] + 1] : k \in DOMAIN chosen }
           /\ dispatches' =
                 [i \in Ids |-> IF i \in IdsOf(chosen)
                                  THEN Min(dispatches[i] + 1, 2) ELSE dispatches[i]]
    /\ UNCHANGED <<phase, MAX_CONCURRENT_CONVERSIONS, selectedFormat, globalError,
                   objectUrls, nextId, revokes, cleared, call, zip, single>>

(* ----------------------- processFile completion ------------------------ *)

\* How the try block of processFile can end once convertFile has settled:
\* with a blob, with the failure result, or in the catch (URL.createObjectURL
\* is the call after the await that can throw, so only on the blob path).
processFileOutcomes(file) ==
    IF "blob" \in convertFileOutcomes(file) THEN convertFileOutcomes(file) \cup {"threw"}
    ELSE convertFileOutcomes(file)

\* Mutant: the pattern without the i flag, /\.(heic|HEIC)$/.
outputFilenameCaseSensitive(originalName, format) ==
    LET extension == IF format = "image/jpeg" THEN <<".", "j", "p", "g">>
                     ELSE <<".", "p", "n", "g">>
    IN  IF \/ endsWith(originalName, <<".", "h", "e", "i", "c">>)
           \/ endsWith(originalName, <<".", "H", "E", "I", "C">>)
          THEN SubSeq(originalName, 1, Len(originalName) - 5) \o extension
          ELSE originalName

\* originalName.replace(/\.(heic|HEIC)$/i, extension)
outputFilename(originalName, format) ==
    LET extension == IF format = "image/jpeg" THEN <<".", "j", "p", "g">>
                     ELSE <<".", "p", "n", "g">>
        heic == <<".", "h", "e", "i", "c">>
    IN  IF endsWith(toLowerCase(originalName), heic)
          THEN SubSeq(originalName, 1, Len(originalName) - Len(heic)) \o extension
          ELSE originalName

\* Mutant: the item is found by its position instead of its id.
setErrorByIndex(fs, id, message) ==
    [i \in DOMAIN fs |->
        IF i = id
          THEN [fs[i] EXCEPT !.status = "error", !.errorMessage = message]
          ELSE fs[i]]

\* Mutant: the status is set without the message.
setErrorStatusOnly(fs, id, message) ==
    [i \in DOMAIN fs |->
        IF fs[i].id = id THEN [fs[i] EXCEPT !.status = "error"] ELSE fs[i]]

\* prev.files.map(f => f.id === fileItem.id ? {...f, status: 'error', errorMessage} : f)
setError(fs, id, message) ==
    [i \in DOMAIN fs |->
        IF fs[i].id = id
          THEN [fs[i] EXCEPT !.status = "error", !.errorMessage = message]
          ELSE fs[i]]

\* Mutant: the converted item is found by its position instead of its id.
setSuccessByIndex(fs, id, blobUrl, filename) ==
    [i \in DOMAIN fs |->
        IF i = id
          THEN [fs[i] EXCEPT !.status = "success", !.downloadUrl = blobUrl,
                             !.filename = filename]
          ELSE fs[i]]

\* Mutant: the status is set without the URL and the filename.
setSuccessStatusOnly(fs, id, blobUrl, filename) ==
    [i \in DOMAIN fs |->
        IF fs[i].id = id THEN [fs[i] EXCEPT !.status = "success"] ELSE fs[i]]

\* prev.files.map(f => f.id === fileItem.id ? {...f, status: 'success', downloadUrl, filename} : f)
setSuccess(fs, id, blobUrl, filename) ==
    [i \in DOMAIN fs |->
        IF fs[i].id = id
          THEN [fs[i] EXCEPT !.status = "success", !.downloadUrl = blobUrl,
                             !.filename = filename]
          ELSE fs[i]]

\* Mutant: the URL is created but never added to the ref.
trackUrlSkipped(urls, blobUrl) == urls

\* objectUrls.current.add(blobUrl)
trackUrl(urls, blobUrl) == urls \cup {blobUrl}

\* The continuation of processFile(fileItem, format) after `await convertFile`.
processFileDone(c, outcome) ==
    /\ c \in inflight
    /\ outcome \in processFileOutcomes(c.fileItem.file)
    /\ inflight' = inflight \ {c}
    /\ \/ /\ outcome = "failed"
          /\ files' = setError(files, c.fileItem.id, ERROR_MESSAGES.CONVERSION_FAILED)
          /\ UNCHANGED <<objectUrls, revokes>>
       \/ /\ outcome = "blob"
          /\ LET blobUrl == createObjectURL(c.fileItem.id)
             IN  /\ objectUrls' = trackUrl(objectUrls, blobUrl)
                 /\ revokes' = revokes @@ (blobUrl :> 0)
                 /\ files' = setSuccess(files, c.fileItem.id, blobUrl,
                                        outputFilename(c.fileItem.file.name, c.format))
       \/ /\ outcome = "threw"
          /\ files' = setError(files, c.fileItem.id, "Unexpected error during conversion")
          /\ UNCHANGED <<objectUrls, revokes>>
    /\ UNCHANGED <<phase, MAX_CONCURRENT_CONVERSIONS, selectedFormat, globalError,
                   nextId, dispatches, cleared, call, zip, single>>

(* --------------------------- user handlers ----------------------------- *)

\* Mutant: the URL of every item is taken, not only that of the item removed.
urlsOfEveryItem(fs, id) == HeldUrls(fs)

\* Mutant: the item is looked up in the list it was already filtered out of.
urlsOfIdAfterFilter(fs, id) ==
    LET kept == SelectSeq(fs, LAMBDA f : f.id # id)
    IN  {kept[i].downloadUrl : i \in {j \in DOMAIN kept : kept[j].id = id}} \ {NoUrl}

\* The URL removeFile revokes: that of the first item with the id, if it has one.
urlsOfId(fs, id) == {fs[i].downloadUrl : i \in {j \in DOMAIN fs : fs[j].id = id}} \ {NoUrl}

\* Mutant: the URL is revoked but stays in the ref (no objectUrls.delete).
removeFileKeepsTracking(id) ==
    /\ phase = "mounted"
    /\ id \in 1..(nextId - 1)
    /\ revokes' = revokeObjectURLs(urlsOfId(files, id))
    /\ files' = SelectSeq(files, LAMBDA f : f.id # id)
    /\ UNCHANGED <<phase, MAX_CONCURRENT_CONVERSIONS, selectedFormat, globalError,
                   objectUrls, inflight, nextId, dispatches, cleared, call, zip, single>>

\* removeFile(id): revoke and untrack the item's URL, drop the item.
removeFile(id) ==
    /\ phase = "mounted"
    /\ id \in 1..(nextId - 1)
    /\ revokes' = revokeObjectURLs(urlsOfId(files, id))
    /\ objectUrls' = objectUrls \ urlsOfId(files, id)
    /\ files' = SelectSeq(files, LAMBDA f : f.id # id)
    /\ UNCHANGED <<phase, MAX_CONCURRENT_CONVERSIONS, selectedFormat, globalError,
                   inflight, nextId, dispatches, cleared, call, zip, single>>

\* clearAll (the Clear All button shows with files and no global error).
clearAll ==
    /\ phase = "mounted"
    /\ Len(files) > 0
    /\ globalError = Undefined
    /\ revokes' = revokeObjectURLs(HeldUrls(files))
    /\ objectUrls' = objectUrls \ HeldUrls(files)
    /\ files' = <<>>
    /\ cleared' = TRUE
    /\ UNCHANGED <<phase, MAX_CONCURRENT_CONVERSIONS, selectedFormat, globalError,
                   inflight, nextId, dispatches, call, zip, single>>

\* reset (defined by the component; no control of the page calls it).
reset ==
    /\ phase = "mounted"
    /\ revokes' = revokeObjectURLs(HeldUrls(files))
    /\ objectUrls' = objectUrls \ HeldUrls(files)
    /\ files' = <<>>
    /\ globalError' = Undefined
    /\ selectedFormat' = CONVERSION_CONFIG.toType
    /\ UNCHANGED <<phase, MAX_CONCURRENT_CONVERSIONS, inflight, nextId, dispatches,
                   cleared, call, zip, single>>

\* Mutant: the button also renames the converted items to the new format.
selectFormatRenaming(format) ==
    /\ phase = "mounted"
    /\ globalError = Undefined
    /\ selectedFormat' = format
    /\ files' = [i \in DOMAIN files |->
                    IF files[i].status = "success"
                      THEN [files[i] EXCEPT
                              !.filename = outputFilename(files[i].file.name, format)]
                      ELSE files[i]]
    /\ UNCHANGED <<phase, MAX_CONCURRENT_CONVERSIONS, globalError, objectUrls,
                   inflight, nextId, revokes, dispatches, cleared, call, zip, single>>

\* handleDownload(fileItem), behind the Download button of a success item:
\* it changes no state; these are the URLs it can give to the anchor it
\* clicks (it returns early without a downloadUrl or a filename).
handleDownloadUrls(fs) ==
    { fs[i].downloadUrl :
        i \in { j \in DOMAIN fs : /\ fs[j].status = "success"
                                  /\ fs[j].downloadUrl # NoUrl
                                  /\ fs[j].filename # NoName } }

\* The JPG / PNG buttons (shown while there is no global error).
selectFormat(format) ==
    /\ phase = "mounted"
    /\ globalError = Undefined
    /\ selectedFormat' = format
    /\ UNCHANGED <<phase, MAX_CONCURRENT_CONVERSIONS, files, globalError, objectUrls,
                   inflight, nextId, revokes, dispatches, cleared, call, zip, single>>

(* ------------------------------ behaviour ------------------------------ *)

Next ==
    \/ Mount
    \/ Unmount
    \/ \E selectedFiles \in Selections : handleFileSelect(selectedFiles)
    \/ QueueEffect
    \/ \E c \in inflight : \E outcome \in {"blob", "failed", "threw"} :
          processFileDone(c, outcome)
    \/ \E id \in Ids : removeFile(id)
    \/ clearAll
    \/ reset
    \/ \E format \in OutputFormat : selectFormat(format)

Spec == Init /\ [][Next]_vars

\* A session in which the page stays open and nothing is removed: files are
\* dropped, the effect runs, conversions end.
NextLive ==
    \/ Mount
    \/ \E selectedFiles \in Selections : handleFileSelect(selectedFiles)
    \/ QueueEffect
    \/ \E c \in inflight : \E outcome \in {"blob", "failed", "threw"} :
          processFileDone(c, outcome)
    \/ \E format \in OutputFormat : selectFormat(format)

\* React runs the effect after every commit that changed state.files, so a
\* pass that has work to do is eventually run; and every call of processFile
\* is taken to end (convertFile settles).
LiveSpec ==
    /\ Init
    /\ [][NextLive]_vars
    /\ WF_vars(QueueEffect)
    /\ \A id \in Ids :
          WF_vars(\E c \in inflight : \E outcome \in {"blob", "failed", "threw"} :
                     c.fileItem.id = id /\ processFileDone(c, outcome))

(* --------------------------- Download All ------------------------------ *)

\* state.files.filter(f => f.status === 'success' && f.downloadUrl)
successfulFiles(fs) ==
    SelectSeq(fs, LAMBDA f : f.status = "success" /\ f.downloadUrl # NoUrl)

\* The entry zip.file(fileItem.filename, blob) writes for an item.
zipEntry(fileItem) == [filename |-> fileItem.filename, downloadUrl |-> fileItem.downloadUrl]

\* The items whose `fetch(fileItem.downloadUrl)` resolves: a revoked blob
\* URL makes fetch reject, and the catch around it only logs.
fetched(items, revoked) ==
    { items[i] : i \in { j \in DOMAIN items : revoked[items[j].downloadUrl] = 0 } }

\* The archives JSZip can hold once every fetch has settled: zip.file
\* replaces an entry of the same name, so of the fetched items with one
\* filename the one whose fetch settled last stays, and that can be any.
archivesOf(items) ==
    LET names == { f.filename : f \in items }
    IN  { { zipEntry(keep[n]) : n \in names } :
            keep \in { g \in [names -> items] : \A n \in names : g[n].filename = n } }

\* handleDownloadAll up to `await import('jszip')`: the Download All button
\* shows with a success item and no global error and is disabled while
\* isZipping; the successful items are taken from state.files at the click.
handleDownloadAll ==
    /\ phase = "mounted"
    /\ globalError = Undefined
    /\ zip.stage = "idle"
    /\ Len(successfulFiles(files)) > 0
    /\ zip' = [stage |-> "importing", successfulFiles |-> successfulFiles(files),
               released |-> {}, archive |-> {}, delivered |-> FALSE]
    /\ UNCHANGED <<phase, MAX_CONCURRENT_CONVERSIONS, files, selectedFormat, globalError,
                   objectUrls, inflight, nextId, revokes, dispatches, cleared, call, single>>

\* The import of jszip rejects: the outer catch logs, finally resets isZipping.
jszipImportFails ==
    /\ zip.stage = "importing"
    /\ zip' = [zip EXCEPT !.stage = "idle"]
    /\ UNCHANGED <<phase, MAX_CONCURRENT_CONVERSIONS, files, selectedFormat, globalError,
                   objectUrls, inflight, nextId, revokes, dispatches, cleared, call, single>>

\* The import has resolved: every item taken at the click is fetched by its
\* URL and the fetched ones are written to the archive.  `released` keeps
\* the URLs that were fetched after their revocation.
zipAddFiles ==
    /\ zip.stage = "importing"
    /\ \E archive \in archivesOf(fetched(zip.successfulFiles, revokes)) :
          zip' = [zip EXCEPT
                    !.stage = "generating",
                    !.released = { zip.successfulFiles[i].downloadUrl :
                                     i \in { j \in DOMAIN zip.successfulFiles :
                                               revokes[zip.successfulFiles[j].downloadUrl] > 0 } },
                    !.archive = archive]
    /\ UNCHANGED <<phase, MAX_CONCURRENT_CONVERSIONS, files, selectedFormat, globalError,
                   objectUrls, inflight, nextId, revokes, dispatches, cleared, call, single>>

\* zip.generateAsync, the click on the link of the archive and the finally
\* block.  The URL of the archive never enters objectUrls; a timer revokes it.
zipDeliver ==
    /\ zip.stage = "generating"
    /\ zip' = [zip EXCEPT !.stage = "idle", !.delivered = TRUE]
    /\ UNCHANGED <<phase, MAX_CONCURRENT_CONVERSIONS, files, selectedFormat, globalError,
                   objectUrls, inflight, nextId, revokes, dispatches, cleared, call, single>>

\* The files dropped while Download All is examined: two valid files.
ZipFiles ==
    { [name |-> <<"a", ".", "H", "E", "I", "C">>, size |-> 2048,
       bytes |-> dummyHeicBytes(Tag("h","e","i","c"))],
      [name |-> <<"d", ".", "h", "e", "i", "c">>, size |-> 2048,
       bytes |-> dummyHeicBytes(Tag("h","e","i","c"))] }

ZipSelections == UNION { [1..n -> ZipFiles] : n \in 1..MaxBatch }

ZipNext ==
    \/ Mount
    \/ \E selectedFiles \in ZipSelections : handleFileSelect(selectedFiles)
    \/ QueueEffect
    \/ \E c \in inflight : \E outcome \in {"blob", "failed", "threw"} :
          processFileDone(c, outcome)
    \/ \E id \in Ids : removeFile(id)
    \/ clearAll
    \/ Unmount
    \/ handleDownloadAll
    \/ jszipImportFails
    \/ zipAddFiles
    \/ zipDeliver

\* The component with its Download All button, from before its mount.
ZipSpec == Init /\ [][ZipNext]_vars

(* ------------- the single-file Converter (Converter.tsx) --------------- *)

\* Mutant: the input is disabled for the unsupported browser only.
isDisabledUnsupportedOnly(state) ==
    state.status = "error" /\ state.errorMessage = ERROR_MESSAGES.BROWSER_UNSUPPORTED

\* isDisabled, the `disabled` prop of the DropZone.
isDisabled(state) ==
    \/ state.status = "processing"
    \/ /\ state.status = "error"
       /\ state.errorMessage = ERROR_MESSAGES.BROWSER_UNSUPPORTED

\* The DropZone hands a file to onFileSelect: handleDrop returns early when
\* disabled, handleClick opens the picker only when not disabled, and the
\* input carries the disabled attribute.
dropZoneDelivers(disabled) == ~disabled

\* The blob URL of the n-th selection.
singleUrl(n) == <<n, 0>>

\* setState(next) followed by the cleanup of the downloadUrl effect, which
\* revokes the URL of the render before when downloadUrl has changed.  An
\* unmounted component keeps its state.
singleSetState(next) ==
    IF single.phase # "mounted" THEN single
    ELSE [single EXCEPT
            !.state = next,
            !.revoked = IF /\ single.state.downloadUrl # NoUrl
                           /\ next.downloadUrl # single.state.downloadUrl
                          THEN @ \cup {single.state.downloadUrl} ELSE @]

\* None of the steps of the single-file Converter touches the list component.
batchUnchanged ==
    UNCHANGED <<phase, MAX_CONCURRENT_CONVERSIONS, files, selectedFormat, globalError,
                objectUrls, inflight, nextId, revokes, dispatches, cleared, call, zip>>

\* The compatibility effect of the mount.
singleMount ==
    /\ single.phase = "mounting"
    /\ \E isCompatible \in BOOLEAN :
          single' = [single EXCEPT
                       !.phase = "mounted",
                       !.state = IF ~isCompatible
                                   THEN [initialState EXCEPT
                                           !.status = "error",
                                           !.errorMessage =
                                               ERROR_MESSAGES.BROWSER_UNSUPPORTED]
                                   ELSE @]
    /\ batchUnchanged

\* The cleanup of the downloadUrl effect at unmount.
singleUnmount ==
    /\ single.phase = "mounted"
    /\ single' = [single EXCEPT
                    !.phase = "unmounted",
                    !.revoked = IF single.state.downloadUrl # NoUrl
                                  THEN @ \cup {single.state.downloadUrl} ELSE @]
    /\ batchUnchanged

\* handleFileSelect(file): an invalid file gives the error state; a valid
\* one gives the processing state and a call of processFile.
singleHandleFileSelect(file) ==
    /\ single.phase = "mounted"
    /\ dropZoneDelivers(isDisabled(single.state))
    /\ single.selected < MaxFiles
    /\ LET validation == validateFile(file)
           n == single.selected + 1
       IN  IF ~validation.isValid
             THEN single' =
                    [singleSetState([initialState EXCEPT
                                       !.status = "error",
                                       !.errorMessage = validation.errorMessage])
                       EXCEPT !.selected = n]
             ELSE single' =
                    [singleSetState([initialState EXCEPT
                                       !.file = file, !.status = "processing"])
                       EXCEPT !.selected = n,
                              !.calls = @ \cup {[file |-> file, n |-> n]}]
    /\ batchUnchanged

\* processFile(file) after `await convertFile(file)`.
singleProcessFileDone(c, outcome) ==
    /\ c \in single.calls
    /\ outcome \in processFileOutcomes(c.file)
    /\ LET next ==
              IF outcome = "failed"
                THEN [initialState EXCEPT
                        !.status = "error",
                        !.errorMessage = ERROR_MESSAGES.CONVERSION_FAILED]
              ELSE IF outcome = "blob"
                THEN [file |-> c.file, status |-> "success", errorMessage |-> "",
                      downloadUrl |-> singleUrl(c.n),
                      filename |-> outputFilename(c.file.name, "image/jpeg")]
              ELSE [initialState EXCEPT
                      !.status = "error",
                      !.errorMessage = "An unexpected error occurred during conversion"]
       IN  single' = [singleSetState(next) EXCEPT !.calls = @ \ {c}]
    /\ batchUnchanged

\* handleDownload: click the link, revoke the URL, clear downloadUrl.
singleHandleDownload ==
    /\ single.phase = "mounted"
    /\ single.state.status = "success"
    /\ single.state.downloadUrl # NoUrl /\ single.state.filename # NoName
    /\ single' = [singleSetState([single.state EXCEPT !.downloadUrl = NoUrl])
                    EXCEPT !.revoked = @ \cup {single.state.downloadUrl}]
    /\ batchUnchanged

\* reset, behind "Try again" (errors other than the unsupported browser)
\* and "Convert another file" (success).
singleReset ==
    /\ single.phase = "mounted"
    /\ \/ single.state.status = "success"
       \/ /\ single.state.status = "error"
          /\ single.state.errorMessage # ""
          /\ single.state.errorMessage # ERROR_MESSAGES.BROWSER_UNSUPPORTED
    /\ single' = [singleSetState(initialState)
                    EXCEPT !.revoked = IF single.state.downloadUrl # NoUrl
                                         THEN @ \cup {single.state.downloadUrl} ELSE @]
    /\ batchUnchanged

SingleNext ==
    \/ singleMount
    \/ singleUnmount
    \/ \E file \in SelectableFiles : singleHandleFileSelect(file)
    \/ \E c \in single.calls : \E outcome \in {"blob", "failed", "threw"} :
          singleProcessFileDone(c, outcome)
    \/ singleHandleDownload
    \/ singleReset

\* The single-file Converter on its own.
SingleSpec == Init /\ [][SingleNext]_vars

(* ------------------ library functions on their own -------------------- *)

\* A function of lib/converters.ts applied to one input, outside the
\* component: `call` holds the function's name and its argument, and the
\* result once the function has returned.
Returned == "result" \in DOMAIN call

Return(result) == call' = [fn |-> call.fn, arg |-> call.arg, result |-> result]

\* File names: a stem and an ending.
NameStems == { <<>>, <<"a">>, <<"I", "M", "G", "_", "0", "0", "0", "1">>,
               <<"p", "h", "o", "t", "o">> }
NameEndings ==
    { <<".", "h", "e", "i", "c">>, <<".", "H", "E", "I", "C">>,
      <<".", "H", "e", "I", "c">>, <<".", "p", "n", "g">>,
      <<"h", "e", "i", "c">>, <<".", "h", "e", "i", "c", ".", "p", "n", "g">>,
      <<".", "h", "e", "i", "c", "x">>, <<".", "h", "e", "i">>, <<>> }
FileNames == { stem \o ending : stem \in NameStems, ending \in NameEndings }

\* File sizes around maxSize.
FileSizes ==
    { 0, 2048, FILE_CONSTRAINTS.maxSize - 1, FILE_CONSTRAINTS.maxSize,
      FILE_CONSTRAINTS.maxSize + 1, 60 * 1024 * 1024 }

ValidateInit ==
    /\ InitConverter
    /\ call \in { [fn |-> "validateFile", arg |-> [name |-> n, size |-> z]] :
                     n \in FileNames, z \in FileSizes }

validateFileCall ==
    /\ call.fn = "validateFile"
    /\ ~Returned
    /\ Return(validateFile(call.arg))
    /\ UNCHANGED converterVars

ValidateNext == validateFileCall

ValidateSpec == ValidateInit /\ [][ValidateNext]_vars

\* Byte contents: four leading bytes, a type tag, a brand and one more byte,
\* cut at every length from 0 to 13; and the same without the leading bytes.
SniffHeads == { <<0, 0, 0, 0>>, <<0, 0, 0, 24>> }
SniffTypeTags == { Tag("f","t","y","p"), <<102, 116, 121, 113>>, <<70, 84, 89, 80>> }
SniffBrands ==
    validBrands \cup { Tag("m","p","4","1"), <<0, 0, 0, 0>>, <<72, 69, 73, 67>> }
SniffContents ==
    { head \o type \o brand \o <<0>> :
         head \in SniffHeads \cup {<<>>}, type \in SniffTypeTags, brand \in SniffBrands }
SniffBytes ==
    { SubSeq(content, 1, Min(n, Len(content))) :
         content \in SniffContents, n \in 0..13 }

SniffInit ==
    /\ InitConverter
    /\ call \in { [fn |-> "isValidHeicFile", arg |-> [bytes |-> b]] : b \in SniffBytes }

isValidHeicFileCall ==
    /\ call.fn = "isValidHeicFile"
    /\ ~Returned
    /\ Return(isValidHeicFile(call.arg))
    /\ UNCHANGED converterVars

SniffNext == isValidHeicFileCall

SniffSpec == SniffInit /\ [][SniffNext]_vars

\* One file dropped on the mounted component and converted in one
\* environment: a dummy HEIC, the same with brand mp41, and one cut to 8
\* bytes, each once readable and once with a prefix read that fails.
ConvertFiles ==
    { [name |-> <<"a", ".", "h", "e", "i", "c">>, size |-> 2048, bytes |-> b,
       readFails |-> r] :
         b \in { dummyHeicBytes(Tag("h","e","i","c")),
                 dummyHeicBytes(Tag("m","p","4","1")),
                 SubSeq(dummyHeicBytes(Tag("h","e","i","c")), 1, 8) },
         r \in BOOLEAN }

\* The state after the mount and a drop of one file.
ConvertInit ==
    /\ phase = "mounted"
    /\ MAX_CONCURRENT_CONVERSIONS \in 1..MaxCap
    /\ selectedFormat = CONVERSION_CONFIG.toType
    /\ globalError = Undefined
    /\ objectUrls = {}
    /\ inflight = {}
    /\ nextId = 2
    /\ revokes = <<>>
    /\ dispatches = [i \in Ids |-> 0]
    /\ cleared = FALSE
    /\ zip = NoZip
    /\ single = NoSingle
    /\ \E file \in ConvertFiles : \E env \in ConversionEnvironments :
          /\ files = <<newFileItem(1, file)>>
          /\ call = [fn |-> "convertFile", arg |-> [file |-> file, env |-> env]]

\* `await convertFile(fileItem.file, format)` inside processFile: the result,
\* and the number of heic2any calls made on the way.
convertFileCall ==
    /\ call.fn = "convertFile"
    /\ ~Returned
    /\ \E c \in inflight : c.fileItem.file = call.arg.file
    /\ Return([ returned |-> convertFile(call.arg.file, call.arg.env),
                heic2anyCalls |->
                    IF heic2anyCalled(call.arg.file, call.arg.env) THEN 1 ELSE 0 ])
    /\ UNCHANGED converterVars

\* The rest of processFile, on the result convertFile returned.
processFileResume ==
    /\ call.fn = "convertFile"
    /\ Returned
    /\ \E c \in inflight : processFileDone(c, resultOutcome(call.result.returned))

ConvertNext ==
    \/ QueueEffect
    \/ convertFileCall
    \/ processFileResume

ConvertSpec == ConvertInit /\ [][ConvertNext]_vars

\* The filename processFile computes, for every name and format.
NameInit ==
    /\ InitConverter
    /\ call \in { [fn |-> "outputFilename",
                    arg |-> [originalName |-> n, format |-> f]] :
                     n \in FileNames, f \in OutputFormat }

outputFilenameCall ==
    /\ call.fn = "outputFilename"
    /\ ~Returned
    /\ Return(outputFilename(call.arg.originalName, call.arg.format))
    /\ UNCHANGED converterVars

NameNext == outputFilenameCall

NameSpec == NameInit /\ [][NameNext]_vars

(* ------------------------------ properties ----------------------------- *)

\* The status of the item `id` in fs, "absent" when fs has no such item.
statusOf(fs, id) ==
    IF id \in IdsOf(fs) THEN fs[CHOOSE i \in DOMAIN fs : fs[i].id = id].status
    ELSE "absent"

\* The item `id` of fs (for an id of IdsOf(fs)).
itemOf(fs, id) == fs[CHOOSE i \in DOMAIN fs : fs[i].id = id]

idleCount(fs) == Cardinality({i \in DOMAIN fs : fs[i].status = "idle"})

\* Items promoted by the step: idle before, processing after.
promotedInStep == {id \in Ids : statusOf(files, id) = "idle" /\ statusOf(files', id) = "processing"}

\* Items processFile is called for by the step.
dispatchedInStep == {id \in Ids : dispatches'[id] > dispatches[id]}

\* C1: in every reachable state the number of items with status processing
\* is at most the concurrency cap.
C1_CapRespected == processingCount(files) <= MAX_CONCURRENT_CONVERSIONS

\* C1 witness: the cap is reached while another item waits idle.
C1_Witness ==
    /\ processingCount(files) = MAX_CONCURRENT_CONVERSIONS
    /\ idleCount(files) > 0

\* C2: promotion is FIFO.  No step promotes an item while an item before it
\* in `items` stays idle; every item dispatched by a step was submitted after
\* every item dispatched by an earlier step; with cap 1 a step promotes at
\* most one item, so A, B, C are promoted one after the other in that order.
C2_FifoPromotion ==
    [][ /\ \A i, j \in DOMAIN files :
              ( /\ i < j
                /\ files[i].status = "idle"
                /\ files[j].id \in promotedInStep )
              => files[i].id \in promotedInStep
        /\ \A b \in dispatchedInStep : \A a \in Ids : dispatches[a] > 0 => a < b
        /\ MAX_CONCURRENT_CONVERSIONS = 1 => Cardinality(dispatchedInStep) <= 1
      ]_vars

\* C2 witness: cap 1, three valid items; the first has finished, the second
\* is running, the third still waits.
C2_Witness ==
    /\ MAX_CONCURRENT_CONVERSIONS = 1
    /\ Len(files) = 3
    /\ files[1].status \in {"success", "error"} /\ dispatches[files[1].id] = 1
    /\ files[2].status = "processing"
    /\ files[3].status = "idle"

\* C3: processFile is called at most once for an item, whatever re-runs of
\* the effect follow its promotion.
C3_DispatchedOnce == \A id \in Ids : dispatches[id] <= 1

\* C3 witness: an item promoted and finished, and the effect has since run
\* again and promoted a later item.
C3_Witness ==
    \E i, j \in DOMAIN files :
        /\ i < j
        /\ files[i].status = "success"
        /\ files[j].status = "processing"
        /\ MAX_CONCURRENT_CONVERSIONS = 1

\* C4: the effect is idempotent: run on the state a first run leaves, it
\* chooses no item and changes no item.
C4_PassIdempotent ==
    LET once == effectFiles(files, MAX_CONCURRENT_CONVERSIONS)
    IN  /\ nextFiles(once, MAX_CONCURRENT_CONVERSIONS) = <<>>
        /\ effectFiles(once, MAX_CONCURRENT_CONVERSIONS) = once

\* C4 witness: a state where the first run promotes and leaves idle items.
C4_Witness ==
    /\ phase = "mounted"
    /\ Len(nextFiles(files, MAX_CONCURRENT_CONVERSIONS)) > 0
    /\ idleCount(files) > Len(nextFiles(files, MAX_CONCURRENT_CONVERSIONS))

\* C5 (as claimed): while globalError is set no item goes from idle to
\* processing and no conversion is dispatched.
C5_FaultBlocksPromotion ==
    [][ globalError # Undefined => (promotedInStep = {} /\ dispatchedInStep = {}) ]_vars

\* C6: the completion of a conversion whose item is no longer in `items`
\* leaves `items` as it is: nothing added, no item changed.
C6_LateCompletionDiscarded ==
    [][ \A c \in inflight :
          (c \notin inflight' /\ c.fileItem.id \notin IdsOf(files)) => files' = files
      ]_vars

\* C6 witness: a conversion succeeded after its item was removed (its URL is
\* held by no item and was never revoked) while other items are listed.
C6_Witness ==
    /\ phase = "mounted"
    /\ Len(files) > 0
    /\ \E u \in DOMAIN revokes : revokes[u] = 0 /\ u \notin HeldUrls(files)

\* C7: an item that holds a URL and leaves `items` has its URL revoked and
\* untracked in the same step.
C7_RemovalReleases ==
    [][ \A i \in DOMAIN files :
          (files[i].downloadUrl # NoUrl /\ files[i].id \notin IdsOf(files'))
          => /\ revokes'[files[i].downloadUrl] = revokes[files[i].downloadUrl] + 1
             /\ files[i].downloadUrl \notin objectUrls'
      ]_vars

\* C7 witness: before teardown and after a clearAll, two items that held a
\* URL are gone, their URLs revoked once each, and items are listed again.
C7_Witness ==
    /\ phase = "mounted"
    /\ cleared
    /\ Len(files) > 0
    /\ Cardinality({u \in DOMAIN revokes : revokes[u] = 1 /\ u \notin HeldUrls(files)}) >= 2

\* C8 (as claimed): when a scenario that inserted items and called clearAll
\* has ended (nothing listed, no conversion in flight), every URL created has
\* been revoked exactly once.
C8_HandleConservation ==
    (cleared /\ files = <<>> /\ inflight = {})
    => \A u \in DOMAIN revokes : revokes[u] = 1

\* C9 (as claimed): after teardown every URL ever created ends up revoked.
\* Once the component is unmounted and no conversion is in flight no step is
\* left to take, so every URL must be revoked by then.  Stated for a session
\* in a supported browser (no global error), where conversions can succeed.
C9_TeardownReclaimsAll ==
    (phase = "unmounted" /\ inflight = {} /\ globalError = Undefined)
    => \A u \in DOMAIN revokes : revokes[u] >= 1

\* C10: the unmount cleanup revokes every tracked URL and empties the set;
\* every URL created before it, released per item or not, has then been
\* revoked exactly once.
C10_ReleaseAllAtTeardown ==
    [][ (phase = "mounted" /\ phase' = "unmounted")
        => /\ \A u \in objectUrls : revokes'[u] = revokes[u] + 1
           /\ objectUrls' = {}
           /\ \A u \in DOMAIN revokes : revokes'[u] = 1
      ]_vars

\* C10 witness: after teardown, a listed item (never removed or cleared)
\* holds a URL that the cleanup revoked.
C10_Witness ==
    /\ phase = "unmounted"
    /\ \E i \in DOMAIN files :
          /\ files[i].downloadUrl # NoUrl
          /\ revokes[files[i].downloadUrl] = 1

\* C11: a release that finds nothing to release is a no-op.  removeFile of an
\* item that is gone (removed or cleared before) or that holds no URL leaves
\* the tracked set and the revocations as they were, and leaves the list as
\* it was when the item is gone; the unmount cleanup does not touch a URL
\* that was released before it, nor the list; and no URL is ever revoked
\* a second time.
C11_ReleaseIdempotent ==
    [][ /\ \A id \in Ids :
              (removeFile(id) /\ urlsOfId(files, id) = {})
                 => /\ UNCHANGED <<objectUrls, revokes>>
                    /\ (id \notin IdsOf(files) => files' = files)
        /\ (phase = "mounted" /\ phase' = "unmounted")
              => /\ files' = files
                 /\ \A u \in DOMAIN revokes :
                       revokes[u] >= 1 => revokes'[u] = revokes[u]
        /\ \A u \in DOMAIN revokes' : revokes'[u] <= 1 ]_vars

\* A URL was released by removeFile or clearAll and its item is gone, while
\* another item still holds its URL: removeFile of the gone item is the
\* repeated release, and leaves this state as it is.
C11_Witness ==
    /\ phase = "mounted"
    /\ \E u \in DOMAIN revokes :
          /\ revokes[u] = 1
          /\ u \notin objectUrls
          /\ u[1] \notin IdsOf(files)
          /\ ENABLED removeFile(u[1])
    /\ HeldUrls(files) # {}

\* C12: every URL that was created and has not been revoked is in the
\* tracked set, in every reachable state (so also right after the step
\* that created it).
C12_CreatedIsTracked ==
    \A u \in DOMAIN revokes : revokes[u] = 0 => u \in objectUrls

\* A URL has been created for a finished conversion and is still unrevoked.
C12_Witness ==
    \E u \in DOMAIN revokes :
        /\ revokes[u] = 0
        /\ u \in objectUrls
        /\ u \in HeldUrls(files)

\* C13: before the unmount, in a supported browser, every tracked and
\* unrevoked URL is the downloadUrl of exactly one item of the list, and that
\* item has status success.
C13_TrackedHasOneOwner ==
    (phase # "unmounted" /\ globalError = Undefined)
       => \A u \in objectUrls :
             revokes[u] = 0
                => Cardinality({i \in DOMAIN files :
                                   /\ files[i].downloadUrl = u
                                   /\ files[i].status = "success"}) = 1

\* C14: an item has a downloadUrl exactly when its status is success, and a
\* filename exactly when its status is success.
C14_OutputIffSuccess ==
    \A i \in DOMAIN files :
        /\ (files[i].downloadUrl # NoUrl) <=> (files[i].status = "success")
        /\ (files[i].filename # NoName) <=> (files[i].status = "success")

\* The list holds a converted item next to one that is not converted.
C14_Witness ==
    /\ \E i \in DOMAIN files :
          files[i].status = "success" /\ files[i].downloadUrl \in objectUrls
    /\ \E i \in DOMAIN files : files[i].status # "success"

\* C15: an item has an errorMessage exactly when its status is error.
C15_MessageIffError ==
    \A i \in DOMAIN files :
        (files[i].errorMessage # "") <=> (files[i].status = "error")

\* The list holds an item whose conversion failed, an item rejected by
\* validateFile, and an item without error.
C15_Witness ==
    /\ \E i \in DOMAIN files :
          /\ files[i].status = "error"
          /\ files[i].errorMessage = ERROR_MESSAGES.CONVERSION_FAILED
    /\ \E i \in DOMAIN files :
          /\ files[i].status = "error"
          /\ files[i].errorMessage = ERROR_MESSAGES.INVALID_FORMAT
    /\ \E i \in DOMAIN files : files[i].status \in {"idle", "processing", "success"}

\* C16: the status of an item of the list changes only from idle to
\* processing, in a step that calls processFile for it, and from processing
\* to success or error, in a step that ends a processFile call for it.  An
\* item with status success or error keeps that status while it is in the
\* list.  (An item enters the list idle or error and can leave it from any
\* status.)
C16_StatusLifecycle ==
    [][ \A id \in Ids :
          LET before == statusOf(files, id)
              after  == statusOf(files', id)
          IN  (before # after /\ before # "absent" /\ after # "absent")
                 => \/ /\ before = "idle"
                       /\ after = "processing"
                       /\ \E c \in inflight' \ inflight : c.fileItem.id = id
                    \/ /\ before = "processing"
                       /\ after \in {"success", "error"}
                       /\ \E c \in inflight \ inflight' : c.fileItem.id = id ]_vars

\* One item went idle, processing, success; another idle, processing,
\* error; a third is processing.
C16_Witness ==
    \E a, b, c \in Ids :
        /\ statusOf(files, a) = "success" /\ dispatches[a] = 1
        /\ statusOf(files, b) = "error" /\ dispatches[b] = 1
        /\ statusOf(files, c) = "processing"

\* C17: an item whose file fails validateFile (wrong extension, or size over
\* maxSize) is in the list with status error and the message of validateFile,
\* processFile has never been called for it, and no call in flight is for
\* such a file.
C17_InvalidNeverRuns ==
    /\ \A i \in DOMAIN files :
          ~validateFile(files[i].file).isValid
             => /\ files[i].status = "error"
                /\ files[i].errorMessage = validateFile(files[i].file).errorMessage
                /\ dispatches[files[i].id] = 0
    /\ \A c \in inflight : validateFile(c.fileItem.file).isValid

\* A file with a wrong extension and a .heic over maxSize are in the list,
\* each with its own message, after the effect has started a valid item
\* submitted after one of them.
C17_Witness ==
    \E i, j, k \in DOMAIN files :
        /\ files[i].errorMessage = ERROR_MESSAGES.INVALID_FORMAT
        /\ files[j].errorMessage = ERROR_MESSAGES.FILE_TOO_LARGE
        /\ files[j].file.size > FILE_CONSTRAINTS.maxSize
        /\ files[k].status = "processing"
        /\ (i < k \/ j < k)

\* C18: in a session where every conversion ends, no global error is set
\* and nothing is removed, every idle item is eventually handed to
\* processFile and eventually has status success or error.
C18_IdleEventuallyResolved ==
    \A id \in Ids :
        (statusOf(files, id) = "idle" /\ globalError = Undefined)
           ~> (dispatches[id] >= 1 /\ statusOf(files, id) \in {"success", "error"})

\* More valid files than the cap were dropped, and all of them are
\* resolved: the later ones were promoted after completions freed a slot.
C18_Witness ==
    /\ globalError = Undefined
    /\ inflight = {}
    /\ Cardinality({i \in DOMAIN files : /\ validateFile(files[i].file).isValid
                                         /\ files[i].status \in {"success", "error"}
                                         /\ dispatches[files[i].id] = 1})
          > MAX_CONCURRENT_CONVERSIONS

\* C19: with no global error, a pass of the effect over the current list
\* leaves min(cap, processing + idle) items processing, counted before the
\* pass; and a pass over five valid files just dropped, with cap 3, leaves
\* exactly three processing and two idle.
C19_WorkConserving ==
    /\ globalError = Undefined
          => processingCount(effectFiles(files, MAX_CONCURRENT_CONVERSIONS))
                = Min(MAX_CONCURRENT_CONVERSIONS,
                      processingCount(files) + idleCount(files))
    /\ LET valid == CHOOSE f \in SelectableFiles : validateFile(f).isValid
           five  == [k \in 1..5 |-> newFileItem(k, valid)]
           after == effectFiles(five, 3)
       IN  processingCount(after) = 3 /\ idleCount(after) = 2

\* A pass has refilled a slot freed by a finished conversion and stopped at
\* the cap: one item is converted, cap items are processing, one waits.
C19_Witness ==
    /\ globalError = Undefined
    /\ \E i \in DOMAIN files : files[i].status = "success"
    /\ processingCount(files) = MAX_CONCURRENT_CONVERSIONS
    /\ idleCount(files) >= 1
    /\ Cardinality(inflight) = MAX_CONCURRENT_CONVERSIONS

\* C20: in a supported browser the number of processFile calls made and not
\* yet ended is at most the concurrency cap, in every reachable state.
C20_InFlightWithinCap ==
    globalError = Undefined => Cardinality(inflight) <= MAX_CONCURRENT_CONVERSIONS

\* C21: no update is lost.  For every item that is in the list before and
\* after a step: an item with status success or error is left exactly as it
\* was; an item that gets its result in the step gets it from the end of a
\* processFile call for that item (a URL created in that step, the filename
\* for its own name and the format of that call); and the end of a call for
\* one item leaves every other item as it was.
C21_NoLostUpdate ==
    [][ \A id \in IdsOf(files) \cap IdsOf(files') :
          LET before == itemOf(files, id)
              after  == itemOf(files', id)
              ended  == inflight \ inflight'
          IN  /\ before.status \in {"success", "error"} => after = before
              /\ (after # before /\ after.status \in {"success", "error"})
                    => \E c \in ended :
                          /\ c.fileItem.id = id
                          /\ after.status = "success"
                                => /\ after.downloadUrl \in
                                         (DOMAIN revokes') \ (DOMAIN revokes)
                                   /\ after.filename =
                                         outputFilename(before.file.name, c.format)
              /\ (\E c \in ended : c.fileItem.id # id) => after = before ]_vars

\* With two slots, two conversions have ended, one with a blob and one with
\* a failure, after the format was changed and while a third item, dropped
\* later, is in the list.
C21_Witness ==
    /\ MAX_CONCURRENT_CONVERSIONS >= 2
    /\ \E a, b, c \in IdsOf(files) :
          /\ itemOf(files, a).status = "success"
          /\ itemOf(files, b).errorMessage = ERROR_MESSAGES.CONVERSION_FAILED
          /\ c > a /\ c > b
    /\ selectedFormat # CONVERSION_CONFIG.toType

\* C22: the list is in submission order.  Ids are handed out in the order
\* of submission, and in every reachable state the ids of the list are
\* strictly increasing: the list is a subsequence of the submissions, new
\* items come after all existing ones, and no step reorders it.
C22_SubmissionOrder ==
    \A i, j \in DOMAIN files : i < j => files[i].id < files[j].id

\* Three files were dropped in two selections, the middle item was removed,
\* and the last item finished while the first is still processing.
C22_Witness ==
    /\ nextId = 4
    /\ Len(files) = 2
    /\ files[1].id = 1 /\ files[1].status = "processing"
    /\ files[2].id = 3 /\ files[2].status \in {"success", "error"}
    /\ dispatches[3] = 1

\* C23: a format button changes nothing but selectedFormat: the list, the
\* tracked URLs and the revocations stay as they were; and in any step
\* that changes selectedFormat, every item that stays in the list keeps its
\* status, errorMessage, downloadUrl and filename.
C23_FormatChangeKeepsItems ==
    [][ /\ (\E format \in OutputFormat : selectFormat(format))
              => UNCHANGED <<files, objectUrls, revokes>>
        /\ selectedFormat' # selectedFormat
              => \A id \in IdsOf(files) \cap IdsOf(files') :
                    itemOf(files', id) = itemOf(files, id) ]_vars

\* PNG is selected while the list holds an item converted to JPEG, with
\* its .jpg filename and its URL.
C23_Witness ==
    /\ selectedFormat = "image/png"
    /\ \E i \in DOMAIN files :
          /\ files[i].status = "success"
          /\ endsWith(files[i].filename, <<".", "j", "p", "g">>)
          /\ files[i].downloadUrl \in objectUrls

\* The name ends with ".heic" in any mix of upper and lower case.
hasAllowedEnding(name) ==
    /\ Len(name) >= 5
    /\ \A k \in 1..5 :
          LowerChar(name[Len(name) - 5 + k]) = <<".", "h", "e", "i", "c">>[k]

\* C24: for a file whose name has no allowed ending and whose size is over
\* maxSize, validateFile returns the INVALID_FORMAT result, not
\* FILE_TOO_LARGE.
C24_ExtensionBeforeSize ==
    (call.fn = "validateFile" /\ Returned)
       => ( (~hasAllowedEnding(call.arg.name)
               /\ call.arg.size > FILE_CONSTRAINTS.maxSize)
            => /\ ~call.result.isValid
               /\ call.result.errorMessage = ERROR_MESSAGES.INVALID_FORMAT
               /\ call.result.errorMessage # ERROR_MESSAGES.FILE_TOO_LARGE )

\* validateFile has returned for IMG_0001.png of 60 MiB.
C24_Witness ==
    /\ call.fn = "validateFile"
    /\ Returned
    /\ call.arg.name = <<"I", "M", "G", "_", "0", "0", "0", "1", ".", "p", "n", "g">>
    /\ call.arg.size = 60 * 1024 * 1024

\* C25: validateFile accepts exactly the files with an allowed ending
\* (in any case) and a size of at most maxSize; it returns FILE_TOO_LARGE
\* exactly for an allowed ending with a size over maxSize; and
\* INVALID_FORMAT for every other file.
C25_ValidateCases ==
    (call.fn = "validateFile" /\ Returned)
       => LET name == call.arg.name
              size == call.arg.size
              r    == call.result
          IN  /\ r.isValid <=> (hasAllowedEnding(name) /\ size <= 50 * 1024 * 1024)
              /\ r.errorMessage = ERROR_MESSAGES.FILE_TOO_LARGE
                    <=> (hasAllowedEnding(name) /\ size > 50 * 1024 * 1024)
              /\ r.errorMessage = ERROR_MESSAGES.INVALID_FORMAT
                    <=> ~hasAllowedEnding(name)
              /\ r.isValid <=> r.errorMessage = ""

\* validateFile has accepted a.HeIc of exactly 50 MiB.
C25_Witness ==
    /\ call.fn = "validateFile"
    /\ Returned
    /\ call.arg.name = <<"a", ".", "H", "e", "I", "c">>
    /\ call.arg.size = 50 * 1024 * 1024
    /\ call.result.isValid

\* C26: isValidHeicFile returns true exactly when the file has at least 12
\* bytes, bytes 4-7 are "ftyp" and bytes 8-11 are one of the ten brands;
\* for every other content, and for every content shorter than 12 bytes,
\* it returns false.
C26_SnifferExact ==
    (call.fn = "isValidHeicFile" /\ Returned)
       => LET b == call.arg.bytes
          IN  call.result
                 <=> /\ Len(b) >= 12
                     /\ <<b[5], b[6], b[7], b[8]>> = <<102, 116, 121, 112>>
                     /\ <<b[9], b[10], b[11], b[12]>> \in validBrands

\* The sniffer has accepted a 12-byte prefix with brand mif1, and the same
\* content cut to 11 bytes is among the inputs.
C26_Witness ==
    /\ call.fn = "isValidHeicFile"
    /\ Returned
    /\ call.result
    /\ Len(call.arg.bytes) = 12
    /\ SubSeq(call.arg.bytes, 9, 12) = Tag("m","i","f","1")
    /\ SubSeq(call.arg.bytes, 1, 11) \in SniffBytes

\* The content starts like a HEIC file: 12 bytes or more, "ftyp" at 4, one
\* of the ten brands at 8.
looksLikeHeic(b) ==
    /\ Len(b) >= 12
    /\ <<b[5], b[6], b[7], b[8]>> = <<102, 116, 121, 112>>
    /\ <<b[9], b[10], b[11], b[12]>> \in validBrands

\* C27: an item whose file passes validateFile but whose bytes fail the
\* sniffer (brand mp41, or too short) goes from idle to processing and from
\* processing to error and nowhere else, its error is CONVERSION_FAILED,
\* and convertFile returns the failure for it without a call of heic2any.
C27_SniffFailureNoDecode ==
    [][ ~looksLikeHeic(call.arg.file.bytes)
          => /\ <<files[1].status, files'[1].status>> \in
                   { <<"idle", "idle">>, <<"idle", "processing">>,
                     <<"processing", "processing">>, <<"processing", "error">>,
                     <<"error", "error">> }
             /\ files'[1].status = "error"
                   => files'[1].errorMessage = ERROR_MESSAGES.CONVERSION_FAILED
             /\ Returned'
                   => /\ call'.result.heic2anyCalls = 0
                      /\ ~call'.result.returned.success
                      /\ call'.result.returned.error = ERROR_MESSAGES.CONVERSION_FAILED
       ]_vars

\* The a.heic with brand mp41 was promoted and has ended in error, in an
\* environment where heic2any would have resolved with a Blob.
C27_Witness ==
    /\ call.fn = "convertFile"
    /\ call.arg.file.bytes = dummyHeicBytes(Tag("m","p","4","1"))
    /\ call.arg.env.module = "heic2any"
    /\ call.arg.env.arrayBuffer = "resolves"
    /\ call.arg.env.heic2any = [kind |-> "resolves", value |-> Blob(1024, 1)]
    /\ dispatches[1] = 1
    /\ files[1].status = "error"
    /\ files[1].errorMessage = ERROR_MESSAGES.CONVERSION_FAILED

\* heic2any throws, rejects, or resolves with no buffer, an empty buffer or
\* an empty list.
failsOrMalformed(behaviour) ==
    \/ behaviour.kind \in {"throws", "rejects"}
    \/ behaviour.value.type \in {"undefined", "null"}
    \/ behaviour.value.type = "Blob" /\ behaviour.value.size = 0
    \/ behaviour.value.type = "Array" /\ Len(behaviour.value.items) = 0

\* C28: when heic2any is called and throws, rejects, or resolves with a
\* missing buffer, an empty buffer or an empty list, convertFile returns the
\* failure result with CONVERSION_FAILED, and the item never has status
\* success: it ends in error with CONVERSION_FAILED.
C28_DecodeFailuresCollapse ==
    ( /\ call.fn = "convertFile"
      /\ Returned
      /\ call.result.heic2anyCalls = 1
      /\ failsOrMalformed(call.arg.env.heic2any) )
       => /\ ~call.result.returned.success
          /\ call.result.returned.error = ERROR_MESSAGES.CONVERSION_FAILED
          /\ files[1].status # "success"
          /\ inflight = {}
                => /\ files[1].status = "error"
                   /\ files[1].errorMessage = ERROR_MESSAGES.CONVERSION_FAILED

\* C29: when heic2any resolves with an array whose first element is a Blob,
\* convertFile succeeds with that first element, whatever follows it; when
\* it resolves with a Blob, convertFile succeeds with that Blob.
C29_FirstOfList ==
    ( /\ call.fn = "convertFile"
      /\ Returned
      /\ call.result.heic2anyCalls = 1
      /\ call.arg.env.heic2any.kind = "resolves" )
       => LET value == call.arg.env.heic2any.value
              r     == call.result.returned
          IN  /\ ( /\ value.type = "Array"
                    /\ Len(value.items) >= 1
                    /\ value.items[1].type = "Blob" )
                    => (r.success /\ r.blob = value.items[1])
              /\ value.type = "Blob" => (r.success /\ r.blob = value)

\* convertFile has returned for an array of two different Blobs.
C29_Witness ==
    /\ call.fn = "convertFile"
    /\ Returned
    /\ call.result.heic2anyCalls = 1
    /\ call.arg.env.heic2any.value = JsArray(<<Blob(1024, 2), Blob(1024, 1)>>)
    /\ call.result.returned.blob = Blob(1024, 2)

\* C30: for a name that ends with .heic in any case, the filename is the
\* name without its last five characters followed by .jpg for image/jpeg
\* and .png for image/png; IMG_0001.HEIC with image/jpeg gives
\* IMG_0001.jpg and photo.heic with image/png gives photo.png.
C30_OutputName ==
    (call.fn = "outputFilename" /\ Returned)
       => LET name   == call.arg.originalName
              format == call.arg.format
          IN  /\ hasAllowedEnding(name)
                    => call.result =
                          SubSeq(name, 1, Len(name) - 5)
                             \o (IF format = "image/jpeg" THEN <<".", "j", "p", "g">>
                                 ELSE <<".", "p", "n", "g">>)
              /\ ( /\ name = <<"I", "M", "G", "_", "0", "0", "0", "1",
                                ".", "H", "E", "I", "C">>
                    /\ format = "image/jpeg" )
                    => call.result = <<"I", "M", "G", "_", "0", "0", "0", "1",
                                       ".", "j", "p", "g">>
              /\ ( /\ name = <<"p", "h", "o", "t", "o", ".", "h", "e", "i", "c">>
                    /\ format = "image/png" )
                    => call.result = <<"p", "h", "o", "t", "o", ".", "p", "n", "g">>

\* The filename has been computed for photo.HeIc with image/png.
C30_Witness ==
    /\ call.fn = "outputFilename"
    /\ Returned
    /\ call.arg.originalName = <<"p", "h", "o", "t", "o", ".", "H", "e", "I", "c">>
    /\ call.arg.format = "image/png"
    /\ call.result = <<"p", "h", "o", "t", "o", ".", "p", "n", "g">>

(* ------------------- the global fault (C31, C32) ----------------------- *)

\* C31: while the global fault is set, a submission adds no item: a step
\* taken with globalError set leaves the set of item ids where it was or
\* smaller.  The DropZone is rendered with disabled={false}, so the step of
\* handleFileSelect breaks this.
C31_FaultBlocksSubmission ==
    [][globalError # Undefined => IdsOf(files') \subseteq IdsOf(files)]_vars

\* C32: once the global fault is set, no operation clears it.  reset writes
\* globalError: undefined and breaks this.
C32_FaultNeverCleared ==
    [][globalError # Undefined => globalError' = globalError]_vars

(* --------------------- the prefix read fails (C33) --------------------- *)

\* C33: for a file whose 12-byte prefix cannot be read, whatever its bytes
\* are, the sniffer returns false, convertFile returns the CONVERSION_FAILED
\* failure without a call of heic2any, and the item ends in error with that
\* same message: no other error message ever reaches the item.
C33_ReadFaultIsConversionFailed ==
    readFails(call.arg.file)
       => /\ ~isValidHeicFile(call.arg.file)
          /\ Returned =>
                /\ call.result.returned =
                      [success |-> FALSE, blob |-> JsUndefined,
                       error |-> ERROR_MESSAGES.CONVERSION_FAILED]
                /\ call.result.heic2anyCalls = 0
          /\ files[1].status \in {"idle", "processing", "error"}
          /\ files[1].errorMessage \in {"", ERROR_MESSAGES.CONVERSION_FAILED}
          /\ files[1].status = "error"
                => files[1].errorMessage = ERROR_MESSAGES.CONVERSION_FAILED

\* A well-formed HEIC whose prefix read failed, in an environment where the
\* decoder would have succeeded, has ended in error.
C33_Witness ==
    /\ readFails(call.arg.file)
    /\ call.arg.file.bytes = dummyHeicBytes(Tag("h","e","i","c"))
    /\ call.arg.env.module = "heic2any"
    /\ call.arg.env.arrayBuffer = "resolves"
    /\ call.arg.env.heic2any = [kind |-> "resolves", value |-> Blob(1024, 1)]
    /\ Returned
    /\ files[1].status = "error"
    /\ files[1].errorMessage = ERROR_MESSAGES.CONVERSION_FAILED

(* ------------------ processing means in flight (C34) ------------------- *)

\* The conversions in flight that report to the item id.
inflightFor(id) == {c \in inflight : c.fileItem.id = id}

\* C34: every item with status processing has exactly one conversion in
\* flight that reports to its id and has been dispatched; so when no
\* conversion is in flight, no item has status processing.
C34_ProcessingHasOneInFlight ==
    /\ \A i \in DOMAIN files :
          files[i].status = "processing"
             => /\ Cardinality(inflightFor(files[i].id)) = 1
                /\ dispatches[files[i].id] >= 1
    /\ inflight = {} => processingCount(files) = 0

\* Two items are processing, each with its one conversion, while a third
\* waits idle and has none.
C34_Witness ==
    /\ Len(files) = 3
    /\ files[1].status = "processing" /\ Cardinality(inflightFor(files[1].id)) = 1
    /\ files[2].status = "processing" /\ Cardinality(inflightFor(files[2].id)) = 1
    /\ files[3].status = "idle" /\ inflightFor(files[3].id) = {}

(* ------------------- the format of a conversion (C35) ------------------ *)

\* The extension processFile gives the output of a conversion to format.
extensionOf(format) ==
    IF format = "image/jpeg" THEN <<".", "j", "p", "g">> ELSE <<".", "p", "n", "g">>

\* C35: a conversion that starts in a step is for an item that was idle, is
\* given the format selected in that step's state and hands heic2any that
\* format with the fixed quality; a step that changes the selected format
\* leaves the conversions in flight as they are; and an item that becomes
\* success gets a filename with the extension of the format its own
\* conversion was started with, whatever is selected by then.
C35_FormatOfPromotion ==
    [][ /\ \A c \in inflight' \ inflight :
              /\ statusOf(files, c.fileItem.id) = "idle"
              /\ c.format = selectedFormat
              /\ c.options = [toType |-> selectedFormat,
                              quality |-> CONVERSION_CONFIG.quality]
        /\ selectedFormat' # selectedFormat => inflight' = inflight
        /\ \A c \in inflight \ inflight' :
              \A i \in DOMAIN files' :
                 ( /\ files'[i].id = c.fileItem.id
                   /\ files'[i].status = "success" )
                    => /\ endsWith(files'[i].filename, extensionOf(c.format))
                       /\ c.options.toType = c.format ]_vars

\* An item promoted under JPEG has become a .jpg after PNG was selected,
\* while an item that was idle at the change is converted to PNG.
C35_Witness ==
    /\ selectedFormat = "image/png"
    /\ \E i, j \in DOMAIN files :
          /\ files[i].status = "success"
          /\ endsWith(files[i].filename, <<".", "j", "p", "g">>)
          /\ files[j].status = "processing"
          /\ \E c \in inflight :
                /\ c.fileItem.id = files[j].id
                /\ c.options = [toType |-> "image/png", quality |-> "0.8"]

(* ------------------ success items keep their URL (C36) ----------------- *)

C37_BulkReadsLiveHandles ==
    /\ zip.released = {}
    /\ zip.delivered
          => zip.archive = { zipEntry(zip.successfulFiles[i]) :
                               i \in DOMAIN zip.successfulFiles }

(* ----------------- one conversion at a time (C38) ---------------------- *)

\* The single-file state shows the unsupported-browser error.
singleUnsupported(s) ==
    s.state.status = "error" /\ s.state.errorMessage = ERROR_MESSAGES.BROWSER_UNSUPPORTED

\* C38: in the single-file Converter at most one processFile call is in
\* flight; a call starts only from a state that is neither processing nor
\* the unsupported-browser error; while a call is in flight in the mounted
\* component the status is processing; and once the unsupported-browser
\* error shows it stays, no file is taken and no call is ever in flight.
C38_OneConversionAtATime ==
    [][ /\ Cardinality(single'.calls) <= 1
        /\ single'.calls \ single.calls # {}
              => /\ single.state.status # "processing"
                 /\ ~singleUnsupported(single)
                 /\ single.calls = {}
        /\ (single'.calls # {} /\ single'.phase = "mounted")
              => single'.state.status = "processing"
        /\ singleUnsupported(single)
              => /\ singleUnsupported(single')
                 /\ single'.selected = single.selected
                 /\ single'.calls = {} ]_vars

\* The second conversion of a session is in flight alone: the first one
\* ended before the second file was selected.
C38_Witness ==
    /\ single.phase = "mounted"
    /\ single.selected = 2
    /\ single.state.status = "processing"
    /\ single.calls = {[file |-> single.state.file, n |-> 2]}

====
